---- MODULE Spec2Model ----
(***************************************************************************)
(* DotNext WAL analyzer (scripts/wal_analyzer.py): the metadata decoder,   *)
(* the paged data reader, the entry analysis and the report of main.       *)
(*                                                                         *)
(* Representation.                                                         *)
(*  - A byte is a number 0..255; a byte string is a sequence of bytes.     *)
(*  - The metadata file is the sequence of its complete 64-byte slots,     *)
(*    each given by the four unpacked fields and a flag for the reserved   *)
(*    bytes 32..63, plus the number of bytes of a trailing partial slot.   *)
(*  - A page file is sparse: its size, the byte strings placed in it and   *)
(*    the byte that fills the rest.  A page directory maps a page index to *)
(*    <<>> (no such file) or <<file>>.                                     *)
(*  - Python's None is <<>>, a present optional value x is <<x>>.          *)
(*  - timestamp_ticks is a signed 64-bit number, beyond the range of the   *)
(*    model checker's integers: it is a sign and four limbs in base 10^6,  *)
(*    most significant first.                                              *)
(***************************************************************************)
EXTENDS Integers, Sequences, FiniteSets, TLC

\* ------------------------------------------------------------ constants

PAGE_SIZE == 16384

SLOT_SIZE == 64

SAMPLE_LEN == 100

MARKER == <<123, 34, 36, 116, 121, 112, 101, 34>>

\* ------------------------------------------------------------ bounds

MaxSlots == 3

MaxSlotsLive == 2

\* ------------------------------------------------------------ helpers

Min(a, b) == IF a < b THEN a ELSE b

Max(a, b) == IF a > b THEN a ELSE b

Zeros(n) == [j \in 1..n |-> 0]

\* data[a:b] of Python, 0-based and half-open, clipped to the string
Slice(s, a, b) ==
    LET lo == Min(a, Len(s))
        hi == Min(b, Len(s))
    IN  IF hi <= lo THEN <<>> ELSE SubSeq(s, lo + 1, hi)

\* ------------------------------------------------------------ big numbers

LIMB == 1000 * 1000

BigZeroMag == <<0, 0, 0, 0>>

Big(neg, mag) == [neg |-> neg, mag |-> mag]

\* -1, 0, 1 as a is below, equal to, above b (magnitudes)
MagCmp(a, b) ==
    IF a = b THEN 0
    ELSE LET d == CHOOSE j \in 1..4 : a[j] # b[j] /\ \A h \in 1..(j - 1) : a[h] = b[h]
         IN  IF a[d] < b[d] THEN -1 ELSE 1

\* a + b on magnitudes (the sum stays below 10^24)
MagAdd(a, b) ==
    LET c4 == (a[4] + b[4]) \div LIMB
        c3 == (a[3] + b[3] + c4) \div LIMB
        c2 == (a[2] + b[2] + c3) \div LIMB
    IN  << (a[1] + b[1] + c2) % LIMB, (a[2] + b[2] + c3) % LIMB,
           (a[3] + b[3] + c4) % LIMB, (a[4] + b[4]) % LIMB >>

\* a - b on magnitudes, for a >= b
MagSub(a, b) ==
    LET w4 == IF a[4] < b[4] THEN 1 ELSE 0
        w3 == IF a[3] - w4 < b[3] THEN 1 ELSE 0
        w2 == IF a[2] - w3 < b[2] THEN 1 ELSE 0
    IN  << a[1] - w2 - b[1], a[2] - w3 - b[2] + w2 * LIMB,
           a[3] - w4 - b[3] + w3 * LIMB, a[4] - b[4] + w4 * LIMB >>

\* floor(a / 10) on magnitudes
MagDiv10(a) ==
    LET r1 == a[1] % 10
        r2 == (r1 * LIMB + a[2]) % 10
        r3 == (r2 * LIMB + a[3]) % 10
    IN  << a[1] \div 10, (r1 * LIMB + a[2]) \div 10,
           (r2 * LIMB + a[3]) \div 10, (r3 * LIMB + a[4]) \div 10 >>

BigNorm(x) == IF x.mag = BigZeroMag THEN Big(FALSE, BigZeroMag) ELSE x

\* x > 0
BigPositive(x) == ~x.neg /\ x.mag # BigZeroMag

\* x <= y
BigLeq(x, y) ==
    IF x.neg /\ ~y.neg THEN TRUE
    ELSE IF ~x.neg /\ y.neg THEN FALSE
    ELSE IF x.neg THEN MagCmp(x.mag, y.mag) >= 0
    ELSE MagCmp(x.mag, y.mag) <= 0

\* x - y for y >= 0
BigSubNat(x, y) ==
    IF x.neg THEN Big(TRUE, MagAdd(x.mag, y.mag))
    ELSE IF MagCmp(x.mag, y.mag) >= 0 THEN Big(FALSE, MagSub(x.mag, y.mag))
    ELSE Big(TRUE, MagSub(y.mag, x.mag))

\* x // 10 of Python: the floor, also below zero
BigFloorDiv10(x) ==
    IF ~x.neg THEN Big(FALSE, MagDiv10(x.mag))
    ELSE BigNorm(Big(TRUE, MagDiv10(MagAdd(x.mag, <<0, 0, 0, 9>>))))

\* 621355968000000000: the ticks from 0001-01-01 to 1970-01-01
EPOCH_TICKS == Big(FALSE, <<0, 621355, 968000, 0>>)

\* datetime.min and datetime.max in microseconds from 1970-01-01
DATETIME_MIN_US == Big(TRUE, <<0, 62135, 596800, 0>>)

DATETIME_MAX_US == Big(FALSE, <<0, 253402, 300799, 999999>>)

\* the largest signed 64-bit number, 9223372036854775807
INT64_MAX == Big(FALSE, <<9, 223372, 36854, 775807>>)

\* ------------------------------------------------------------ page files

File(size, segs, fill) == [size |-> size, segs |-> segs, fill |-> fill]

Seg(at, bytes) == [at |-> at, bytes |-> bytes]

\* the byte at position p (0-based) of a page file, p < f.size
ByteAt(f, p) ==
    LET hits == {s \in 1..Len(f.segs) :
                    p >= f.segs[s].at /\ p < f.segs[s].at + Len(f.segs[s].bytes)}
    IN  IF hits = {} THEN f.fill
        ELSE LET s == CHOOSE s \in hits : TRUE
             IN  f.segs[s].bytes[p - f.segs[s].at + 1]

\* a read that fills up with zero bytes past the end of the file
FileRead_PadsPastEnd(f, pos, n) ==
    [j \in 1..n |-> IF pos + j - 1 < f.size THEN ByteAt(f, pos + j - 1) ELSE 0]

\* f.seek(pos); f.read(n): the bytes from pos up to the end of the file, n at most
FileRead(f, pos, n) ==
    [j \in 1..Min(n, Max(0, f.size - pos)) |-> ByteAt(f, pos + j - 1)]

\* (data_dir / 'raft-log' / 'data' / str(page_index)).exists()
FileExists(dir, page_index) ==
    page_index \in DOMAIN dir /\ dir[page_index] # <<>>

\* ------------------------------------------------------------ read_metadata_entry

\* the fixed-size part of a slot, as struct.unpack('<qqQQ', entry[:32]) gives it
Slot(term, ticks, length, offset, reserved) ==
    [term |-> term, length |-> length, offset |-> offset, reserved |-> reserved,
     timestamp_ticks |-> ticks]

\* len(data) of the metadata file
DataLen(md) == SLOT_SIZE * Len(md.slots) + md.trailing

\* the conversion of lines 37-41: <<>> for None, <<us>> for the instant us
\* microseconds from 1970-01-01, raised when datetime + timedelta overflows
ConvertTimestamp(ticks) ==
    IF BigPositive(ticks)
    THEN LET unix_ticks == BigSubNat(ticks, EPOCH_TICKS)
             us == BigFloorDiv10(unix_ticks)
         IN  IF BigLeq(DATETIME_MIN_US, us) /\ BigLeq(us, DATETIME_MAX_US)
             THEN [raised |-> FALSE, value |-> <<us>>]
             ELSE [raised |-> TRUE, value |-> <<>>]
    ELSE [raised |-> FALSE, value |-> <<>>]

\* the empty test on the term alone
IsEmptySlot_TermOnly(s) == s.term = 0

\* line 32
IsEmptySlot(s) == s.term = 0 /\ s.length = 0 /\ s.offset = 0

\* read_metadata_entry(data, index), index from 0: value is <<>> for None and
\* <<entry>> for a dict; raised is the OverflowError of line 39
read_metadata_entry(md, index) ==
    LET offset == index * SLOT_SIZE
    IN  IF offset + SLOT_SIZE > DataLen(md)
        THEN [raised |-> FALSE, value |-> <<>>]
        ELSE LET s == md.slots[index + 1]
                 ts == ConvertTimestamp(s.timestamp_ticks)
             IN  IF IsEmptySlot(s) THEN [raised |-> FALSE, value |-> <<>>]
                 ELSE IF ts.raised THEN [raised |-> TRUE, value |-> <<>>]
                 ELSE [raised |-> FALSE,
                       value |-> << [term |-> s.term,
                                     length |-> s.length,
                                     offset |-> s.offset,
                                     index |-> index,
                                     timestamp |-> ts.value,
                                     end_offset |-> s.offset + s.length] >>]

\* ------------------------------------------------------------ read_data_at_offset

\* the page index of a store of one file
PageIndex_FirstPage(offset) == 0

PageIndex(offset) == offset \div PAGE_SIZE

PageOffset(offset) == offset % PAGE_SIZE

\* line 65
ReadLen(offset, length) == Min(length, PAGE_SIZE - PageOffset(offset))

\* the read without f.seek(page_offset)
ReadOpened_NoSeek(f, offset, length) == FileRead(f, 0, ReadLen(offset, length))

\* lines 62-66: the file is open
ReadOpened(f, offset, length) == FileRead(f, PageOffset(offset), ReadLen(offset, length))

\* the read that goes on in the next page file
read_data_at_offset_Spanning(dir, offset, length) ==
    IF ~FileExists(dir, PageIndex(offset)) THEN <<>>
    ELSE LET first == FileRead(dir[PageIndex(offset)][1], PageOffset(offset), length)
             rest == length - Len(first)
         IN  IF rest > 0 /\ FileExists(dir, PageIndex(offset) + 1)
             THEN first \o FileRead(dir[PageIndex(offset) + 1][1], 0, rest)
             ELSE first

\* read_data_at_offset(data_dir, offset, length) on a directory nobody changes
read_data_at_offset(dir, offset, length) ==
    IF ~FileExists(dir, PageIndex(offset)) THEN <<>>
    ELSE ReadOpened(dir[PageIndex(offset)][1], offset, length)

\* ------------------------------------------------------------ analyze_entry

\* the test that the sample is the marker and nothing more
StartsWithJson_WholeSample(data) == data = MARKER

\* data.startswith(b'{"$type"')
StartsWithJson(data) ==
    Len(data) >= Len(MARKER) /\ SubSeq(data, 1, Len(MARKER)) = MARKER

\* the count without the break at the first non-zero byte
NullCount_NoBreak(data) == Len(SelectSeq(data, LAMBDA b : b = 0))

\* the count that is 0 when no non-zero byte ends the zero bytes
NullCount_NeedsContent(data) ==
    LET nz == {j \in 1..Len(data) : data[j] # 0}
    IN  IF nz = {} THEN 0 ELSE (CHOOSE j \in nz : \A h \in nz : j <= h) - 1

\* lines 77-82
RECURSIVE NullCount(_)
NullCount(data) ==
    IF data = <<>> \/ Head(data) # 0 THEN 0 ELSE 1 + NullCount(Tail(data))

\* the flag without the test of the zero bytes
HasPaddingBug_NoFillerTest(null_count, starts_with_json) == ~starts_with_json

\* line 99
HasPaddingBug(null_count, starts_with_json) == null_count > 0 /\ ~starts_with_json

\* the end page taken at offset + length, one past the last byte
CrossesPage_EndExclusive(entry) ==
    PageIndex(entry.offset) # ((entry.offset + entry.length) \div PAGE_SIZE)

\* lines 85-87
CrossesPage(entry) ==
    PageIndex(entry.offset) # ((entry.offset + entry.length - 1) \div PAGE_SIZE)

\* lines 90-91
RemainingInPage(entry) == (PageIndex(entry.offset) + 1) * PAGE_SIZE - entry.offset

\* the remainder reported also when it equals the length
RemainingReported_Inclusive(entry) ==
    IF RemainingInPage(entry) <= entry.length THEN <<RemainingInPage(entry)>> ELSE <<>>

\* line 100
RemainingReported(entry) ==
    IF RemainingInPage(entry) < entry.length THEN <<RemainingInPage(entry)>> ELSE <<>>

\* line 95, the bytes the preview renders
DataPreview(data, null_count, starts_with_json) ==
    IF starts_with_json THEN [bytes |-> Slice(data, 0, 60), nulls |-> <<>>]
    ELSE [bytes |-> Slice(data, null_count, null_count + 40), nulls |-> <<null_count>>]

\* the whole entry asked of read_data_at_offset
SampleLen_WholeEntry(entry) == entry.length

\* line 71, the length asked of read_data_at_offset
SampleLen(entry) == Min(entry.length, SAMPLE_LEN)

\* lines 73-101: the analysis of an entry whose sample is data
Analysis(entry, data) ==
    LET starts_with_json == StartsWithJson(data)
        null_count == NullCount(data)
    IN  [term |-> entry.term, length |-> entry.length, offset |-> entry.offset,
         index |-> entry.index, timestamp |-> entry.timestamp,
         end_offset |-> entry.end_offset,
         starts_with_json |-> starts_with_json,
         data_preview |-> DataPreview(data, null_count, starts_with_json),
         leading_nulls |-> null_count,
         crosses_page |-> CrossesPage(entry),
         has_padding_bug |-> HasPaddingBug(null_count, starts_with_json),
         remaining_in_page |-> RemainingReported(entry)]

\* line 71
Sample(dir, entry) == read_data_at_offset(dir, entry.offset, SampleLen(entry))

analyze_entry(dir, entry) == Analysis(entry, Sample(dir, entry))

\* the position of the head of the list, whatever is looked for
ListIndex_Head(list, x) == 1

\* entries.index(entry): the first position holding a dict equal to entry
ListIndex(list, x) ==
    CHOOSE j \in 1..Len(list) : list[j] = x /\ \A h \in 1..(j - 1) : list[h] # x

\* ------------------------------------------------------------ the report

\* the tag with OK for every entry that is not flagged
Status_NoUnknown(e) == IF e.has_padding_bug THEN "BUG!" ELSE "OK"

\* line 152
Status(e) == IF e.has_padding_bug THEN "BUG!" ELSE IF e.starts_with_json THEN "OK" ELSE "?"

\* line 154, one table row
Row(e) ==
    [length |-> e.length, offset |-> e.offset, index |-> e.index,
     end_offset |-> e.end_offset, kind |-> "row", page |-> PageIndex(e.offset), status |-> Status(e)]

\* the block that shows the recorded offset as the place of the content
Block_RecordedOffset(e) ==
    [length |-> e.length, offset |-> e.offset, index |-> e.index,
     leading_nulls |-> e.leading_nulls, kind |-> "block",
     actual_json_at |-> e.offset,
     page_boundary |-> (PageIndex(e.offset) + 1) * PAGE_SIZE]

\* lines 163-169, the block of a buggy entry
Block(e) ==
    [length |-> e.length, offset |-> e.offset, index |-> e.index,
     leading_nulls |-> e.leading_nulls, kind |-> "block",
     actual_json_at |-> e.offset + e.leading_nulls,
     page_boundary |-> (PageIndex(e.offset) + 1) * PAGE_SIZE]

\* lines 159-171
Summary(buggy) ==
    IF buggy # <<>>
    THEN <<[kind |-> "bugs", count |-> Len(buggy)]>> \o [j \in 1..Len(buggy) |-> Block(buggy[j])]
    ELSE <<[kind |-> "nobugs"]>>

\* ------------------------------------------------------------ inputs

TICKS_ZERO == Big(FALSE, BigZeroMag)

TICKS_NEGATIVE == Big(TRUE, <<0, 0, 0, 1>>)

\* 3155378975999999999, the ticks of 9999-12-31T23:59:59.9999999
TICKS_DATETIME_MAX == Big(FALSE, <<3, 155378, 975999, 999999>>)

TICKS_PAST_DATETIME_MAX == Big(FALSE, <<3, 155378, 976000, 0>>)

\* page 0 of a log: an entry at 0, an entry at 100 behind 8 zero bytes, 4 zero
\* bytes before other content at 200 and before the marker at 300, and at the
\* end of the page 8 zero bytes and the first half of a marker that goes on in
\* page 1
FileA ==
    File(PAGE_SIZE,
         << Seg(0, MARKER), Seg(100, Zeros(8) \o MARKER), Seg(200, Zeros(4) \o <<88, 89>>),
            Seg(300, Zeros(4) \o MARKER),
            Seg(PAGE_SIZE - 12, Zeros(8) \o SubSeq(MARKER, 1, 4)) >>,
         88)

\* page 1: the second half of that marker, then an entry at 50
FileB == File(PAGE_SIZE, << Seg(0, SubSeq(MARKER, 5, 8)), Seg(50, MARKER) >>, 88)

\* a page still growing: 12 bytes, an entry and 4 zero bytes
FileShort == File(12, << Seg(0, MARKER) >>, 0)

\* a page of zero bytes
FileZero == File(PAGE_SIZE, <<>>, 0)

\* a file longer than a page: a marker across byte 16384 of the file
FileLong == File(PAGE_SIZE + 20, << Seg(PAGE_SIZE - 4, MARKER) >>, 88)

Dir(p0, p1) == [p \in 0..1 |-> IF p = 0 THEN p0 ELSE p1]

Stores ==
    { Dir(p0, p1) : p0 \in {<<>>, <<FileA>>, <<FileShort>>, <<FileZero>>, <<FileLong>>},
                    p1 \in {<<>>, <<FileB>>} }

\* the slots a metadata file of a run is made of
SlotChoices ==
    { Slot(0, TICKS_ZERO, 0, 0, 0),
      Slot(0, EPOCH_TICKS, 0, 0, 1),
      Slot(1, EPOCH_TICKS, 50, 0, 0),
      Slot(1, EPOCH_TICKS, 50, 100, 0),
      Slot(2, TICKS_ZERO, 50, PAGE_SIZE - 4, 1),
      Slot(0, TICKS_NEGATIVE, 120, 2 * PAGE_SIZE, 0),
      Slot(1, INT64_MAX, 8, 0, 0),
      Slot(1, TICKS_DATETIME_MAX, 0, PAGE_SIZE, 0) }

RECURSIVE SeqsUpTo(_, _)
SeqsUpTo(S, n) ==
    IF n = 0 THEN {<<>>}
    ELSE LET shorter == SeqsUpTo(S, n - 1)
         IN  shorter \cup {Append(q, x) : q \in {r \in shorter : Len(r) = n - 1}, x \in S}

Metadata(slots, trailing) == [slots |-> slots, trailing |-> trailing]

\* ------------------------------------------------------------ state

VARIABLES
    argv_ok,         \* len(sys.argv) >= 2
    metadata_file,   \* <<>>: no metadata file; <<md>>: the file
    pages,           \* the page directory raft-log/data
    pc,              \* where main is
    metadata_data,   \* main's metadata_data
    max_entries,     \* main's max_entries
    i,               \* the index of the decoding loop
    entries,         \* main's entries
    k,               \* the position (from 1) of the iteration over entries
    data,            \* <<>> or <<the sample of the entry analysed last>>
    buggy_entries,   \* main's buggy_entries
    stdout,          \* what was printed, in order
    exit_status,     \* <<>> while running, then <<status>>
    fault,           \* <<>> or <<the exception that ended the run>>
    ucall,           \* a single call of a function: its arguments
    uret             \* and what it returned

\* main of benchmarks/run_benchmark.py
VARIABLES
    rpc,             \* where run_benchmark's main is
    scenario,        \* the i of enumerate(scenarios, 1)
    polls,           \* the requests wait_for_healthy_cluster has made in this wait
    healthy,         \* <<>> or <<what wait_for_healthy_cluster returned last>>
    failed,          \* main's failed
    invoked,         \* the scenarios run_scenario was called for, in order
    scenarios_run    \* <<>> or <<the number printed as "Scenarios run">>

\* run_write_benchmark and run_read_benchmark of scripts/benchmark_configs.py
VARIABLES
    cpc,             \* where the benchmark is
    target_urls,     \* the target URLs (one, the leader, when writing)
    count,           \* the count asked for
    ci,              \* the i of range(count)
    successes,
    failures,
    latencies,
    requests         \* the requests issued, in order: <<target, key>>

bench == << rpc, scenario, polls, healthy, failed, invoked, scenarios_run >>

configs == << cpc, target_urls, count, ci, successes, failures, latencies, requests >>

others == << bench, configs >>

wal ==
    << argv_ok, metadata_file, pages, pc, metadata_data, max_entries, i, entries, k,
       data, buggy_entries, stdout, exit_status, fault, ucall, uret >>

vars == << wal, others >>

env == << argv_ok, metadata_file >>

unit == << ucall, uret >>

\* run_benchmark's main is not running
IdleBench ==
    /\ rpc = "idle"
    /\ scenario = 1
    /\ polls = 0
    /\ healthy = <<>>
    /\ failed = <<>>
    /\ invoked = <<>>
    /\ scenarios_run = <<>>

\* no benchmark of benchmark_configs.py is running
IdleConfigs ==
    /\ cpc = "idle"
    /\ target_urls = <<>>
    /\ count = 0
    /\ ci = 0
    /\ successes = 0
    /\ failures = 0
    /\ latencies = <<>>
    /\ requests = <<>>

\* the locals of wal_analyzer's main before it runs
IdleMain ==
    /\ pc = "args"
    /\ metadata_data = Metadata(<<>>, 0)
    /\ max_entries = 0
    /\ i = 0
    /\ entries = <<>>
    /\ k = 1
    /\ data = <<>>
    /\ buggy_entries = <<>>
    /\ stdout = <<>>
    /\ exit_status = <<>>
    /\ fault = <<>>
    /\ ucall = <<>>
    /\ uret = <<>>

InitLocals ==
    /\ IdleMain
    /\ IdleBench
    /\ IdleConfigs

InitRun(n) ==
    /\ argv_ok \in BOOLEAN
    /\ \/ /\ argv_ok
          /\ metadata_file \in {<<>>} \cup { <<Metadata(s, t)>> : s \in SeqsUpTo(SlotChoices, n),
                                                                  t \in {0, 5} }
          /\ pages \in Stores
       \/ /\ ~argv_ok
          /\ metadata_file = <<>>
          /\ pages = Dir(<<>>, <<>>)
    /\ InitLocals

Init == InitRun(MaxSlots)

\* ------------------------------------------------------------ main

Exit(status) ==
    /\ pc' = "exited"
    /\ exit_status' = <<status>>

Raise(exception) ==
    /\ fault' = <<exception>>
    /\ Exit(1)

\* lines 105-107
CheckArgs ==
    /\ pc = "args"
    /\ IF argv_ok
       THEN /\ pc' = "exists"
            /\ UNCHANGED << stdout, exit_status >>
       ELSE /\ stdout' = Append(stdout, [kind |-> "usage"])
            /\ Exit(1)
    /\ UNCHANGED << env, pages, metadata_data, max_entries, i, entries, k, data,
                    buggy_entries, fault, unit, others >>

\* the missing metadata file reported, the run ending with status 0
CheckMetadata_ExitsZero ==
    /\ pc = "exists"
    /\ IF metadata_file # <<>>
       THEN /\ stdout' = Append(stdout, [kind |-> "analyzing"])
            /\ pc' = "read"
            /\ UNCHANGED exit_status
       ELSE /\ stdout' = Append(stdout, [kind |-> "error", path |-> "raft-log/metadata/0"])
            /\ Exit(0)
    /\ UNCHANGED << env, pages, metadata_data, max_entries, i, entries, k, data,
                    buggy_entries, fault, unit, others >>

\* lines 109-118
CheckMetadata ==
    /\ pc = "exists"
    /\ IF metadata_file # <<>>
       THEN /\ stdout' = Append(stdout, [kind |-> "analyzing"])
            /\ pc' = "read"
            /\ UNCHANGED exit_status
       ELSE /\ stdout' = Append(stdout, [kind |-> "error", path |-> "raft-log/metadata/0"])
            /\ Exit(1)
    /\ UNCHANGED << env, pages, metadata_data, max_entries, i, entries, k, data,
                    buggy_entries, fault, unit, others >>

\* lines 120-127
ReadMetadata ==
    /\ pc = "read"
    /\ metadata_data' = metadata_file[1]
    /\ max_entries' = DataLen(metadata_data') \div SLOT_SIZE
    /\ stdout' = Append(stdout, [bytes |-> DataLen(metadata_data'), kind |-> "size",
                                 possible |-> max_entries'])
    /\ entries' = <<>>
    /\ i' = 0
    /\ pc' = "decode"
    /\ UNCHANGED << env, pages, k, data, buggy_entries, exit_status, fault, unit, others >>

\* lines 128-131, one iteration
DecodeStep ==
    /\ pc = "decode"
    /\ i < max_entries
    /\ LET r == read_metadata_entry(metadata_data, i)
       IN  IF r.raised
           THEN /\ Raise("OverflowError")
                /\ UNCHANGED << entries, i >>
           ELSE /\ entries' = entries \o r.value
                /\ i' = i + 1
                /\ UNCHANGED << pc, exit_status, fault >>
    /\ UNCHANGED << env, pages, metadata_data, max_entries, k, data, buggy_entries,
                    stdout, unit, others >>

\* lines 133-137, the loop is over
DecodeDone ==
    /\ pc = "decode"
    /\ i >= max_entries
    /\ stdout' = Append(stdout, [kind |-> "found", count |-> Len(entries)])
    /\ buggy_entries' = <<>>
    /\ k' = 1
    /\ pc' = "analyze"
    /\ UNCHANGED << env, pages, metadata_data, max_entries, i, entries, data,
                    exit_status, fault, unit, others >>

\* lines 139-142 once the sample of entries[k] is sample
Analyzed(sample) ==
    LET entry == entries[k]
        analysis == Analysis(entry, sample)
    IN  /\ data' = <<sample>>
        /\ entries' = [entries EXCEPT ![ListIndex(entries, entry)] = analysis]
        /\ buggy_entries' = IF analysis.has_padding_bug
                            THEN Append(buggy_entries, analysis) ELSE buggy_entries
        /\ k' = k + 1
        /\ pc' = "analyze"
        /\ UNCHANGED << exit_status, fault >>

\* lines 138-139 and 55-60: the next entry, up to the test that its page exists
AnalyzeBegin ==
    /\ pc = "analyze"
    /\ k <= Len(entries)
    /\ IF FileExists(pages, PageIndex(entries[k].offset))
       THEN /\ pc' = "open"
            /\ UNCHANGED << data, entries, buggy_entries, k, exit_status, fault >>
       ELSE Analyzed(<<>>)
    /\ UNCHANGED << env, pages, metadata_data, max_entries, i, stdout, unit, others >>

\* lines 62-66 and 73-142: open the page, read the sample, analyse
AnalyzeOpen ==
    /\ pc = "open"
    /\ IF FileExists(pages, PageIndex(entries[k].offset))
       THEN Analyzed(ReadOpened(pages[PageIndex(entries[k].offset)][1],
                                entries[k].offset, SampleLen(entries[k])))
       ELSE /\ Raise("FileNotFoundError")
            /\ UNCHANGED << data, entries, buggy_entries, k >>
    /\ UNCHANGED << env, pages, metadata_data, max_entries, i, stdout, unit, others >>

\* lines 144-157
PrintRows ==
    /\ pc = "analyze"
    /\ k > Len(entries)
    /\ stdout' = stdout \o [j \in 1..Len(entries) |-> Row(entries[j])]
    /\ pc' = "summary"
    /\ UNCHANGED << env, pages, metadata_data, max_entries, i, entries, k, data,
                    buggy_entries, exit_status, fault, unit, others >>

\* lines 159-171 and the end of the run
PrintSummary ==
    /\ pc = "summary"
    /\ stdout' = stdout \o Summary(buggy_entries)
    /\ Exit(0)
    /\ UNCHANGED << env, pages, metadata_data, max_entries, i, entries, k, data,
                    buggy_entries, fault, unit, others >>

Next ==
    \/ CheckArgs
    \/ CheckMetadata
    \/ ReadMetadata
    \/ DecodeStep
    \/ DecodeDone
    \/ AnalyzeBegin
    \/ AnalyzeOpen
    \/ PrintRows
    \/ PrintSummary

Spec == Init /\ [][Next]_vars

\* ------------------------------------------------------------ a live log

\* the writer of the log removes a page file (compaction) or creates one; the
\* run looks at the page directory only while it analyses
Writer ==
    /\ pc \in {"analyze", "open"}
    /\ \E p \in DOMAIN pages :
          \E f \in {<<>>, <<FileA>>, <<FileB>>, <<FileShort>>} :
             /\ (pages[p] = <<>>) # (f = <<>>)
             /\ pages' = [pages EXCEPT ![p] = f]
    /\ UNCHANGED << env, pc, metadata_data, max_entries, i, entries, k, data,
                    buggy_entries, stdout, exit_status, fault, unit, others >>

InitLive == InitRun(MaxSlotsLive)

NextLive == Next \/ Writer

SpecLive == InitLive /\ [][NextLive]_vars

\* ------------------------------------------------------------ single calls

UnitOffsets ==
    { 0, 8, 12, 100, 104, 200, 300, 400, PAGE_SIZE - 12, PAGE_SIZE - 8, PAGE_SIZE - 4,
      PAGE_SIZE - 1, PAGE_SIZE, PAGE_SIZE + 50, 2 * PAGE_SIZE, 2 * PAGE_SIZE + 5 }

UnitLengths == { 0, 1, 4, 8, 16, 50, 100, 120 }

UnitSamples ==
    { Zeros(z) \o rest : z \in 0..5,
                         rest \in { <<>>, MARKER, <<88>>, <<88>> \o MARKER, MARKER \o <<0, 88>>,
                                    SubSeq(MARKER, 1, 7), <<123, 0>> } }

UnitSlots ==
    { Slot(term, ticks, length, offset, reserved) :
        term \in {-1, 0, 1},
        ticks \in { TICKS_ZERO, TICKS_NEGATIVE, EPOCH_TICKS, TICKS_DATETIME_MAX,
                    TICKS_PAST_DATETIME_MAX, INT64_MAX },
        length \in {0, 7}, offset \in {0, PAGE_SIZE}, reserved \in {0, 1} }

UnitEntry(offset, length) ==
    [term |-> 1, length |-> length, offset |-> offset, index |-> 0, timestamp |-> <<>>,
     end_offset |-> offset + length]

InitUnit ==
    /\ argv_ok = TRUE
    /\ metadata_file = <<>>
    /\ pages \in Stores
    /\ InitLocals

\* a call is made with arguments call
Call(call) ==
    /\ pc = "args"
    /\ pc' = "called"
    /\ ucall' = <<call>>
    /\ UNCHANGED << env, pages, metadata_data, max_entries, i, entries, k, data,
                    buggy_entries, stdout, exit_status, fault, uret, others >>

\* the call returns value; sample is <<>> or <<the sample it analysed>>
Return(fn, value, sample) ==
    /\ pc = "called"
    /\ ucall[1].fn = fn
    /\ pc' = "returned"
    /\ uret' = <<value>>
    /\ data' = sample
    /\ UNCHANGED << env, pages, metadata_data, max_entries, i, entries, k,
                    buggy_entries, stdout, exit_status, fault, ucall, others >>

UnitCall ==
    \/ \E s \in UnitSlots, t \in {0, 63}, index \in {0, 1} :
          Call([md |-> Metadata(<<s>>, t), index |-> index, fn |-> "read_metadata_entry"])
    \/ \E offset \in UnitOffsets, length \in UnitLengths :
          Call([length |-> length, offset |-> offset, fn |-> "read_data_at_offset"])
    \/ \E offset \in UnitOffsets, length \in UnitLengths :
          Call([entry |-> UnitEntry(offset, length), fn |-> "analyze_entry"])
    \/ \E sample \in UnitSamples :
          \E length \in {Len(sample), 120} :
             Call([data |-> sample, entry |-> UnitEntry(0, length), fn |-> "Analysis"])

UnitDecode ==
    Return("read_metadata_entry", read_metadata_entry(ucall[1].md, ucall[1].index), <<>>)

UnitRead ==
    Return("read_data_at_offset",
           read_data_at_offset(pages, ucall[1].offset, ucall[1].length), <<>>)

UnitAnalyze ==
    Return("analyze_entry", analyze_entry(pages, ucall[1].entry),
           <<Sample(pages, ucall[1].entry)>>)

UnitAnalysis ==
    Return("Analysis", Analysis(ucall[1].entry, ucall[1].data), <<ucall[1].data>>)

NextUnit ==
    \/ UnitCall
    \/ UnitDecode
    \/ UnitRead
    \/ UnitAnalyze
    \/ UnitAnalysis

SpecUnit == InitUnit /\ [][NextUnit]_vars

\* ------------------------------------------------------------ run_benchmark.py

MaxPolls == 2

\* lines 329-335: locustfile as <<stem, suffix>>, host, users, duration, csv prefix
scenarios ==
    << << <<"write", "py">>, "leader", 1, 15, "write-1u" >>,
       << <<"write", "py">>, "leader", 10, 15, "write-10u" >>,
       << <<"read", "py">>, "args.host", 1, 15, "read-1u" >>,
       << <<"read", "py">>, "args.host", 10, 15, "read-10u" >>,
       << <<"mixed", "py">>, "args.host", 10, 30, "mixed-10u" >> >>

\* line 340: f"{Path(locustfile).stem} ({users}u, {duration}s)"
ScenarioName(s) == << s[1][1], s[3], s[4] >>

\* the answers of GET /health/ready: status ready, another status, or a
\* RequestException or ValueError
HealthAnswers == {"ready", "not ready", "exception"}

\* main has prepared the run (steps 1 to 5) and is at the loop of line 339
InitBench ==
    /\ argv_ok = TRUE
    /\ metadata_file = <<>>
    /\ pages = Dir(<<>>, <<>>)
    /\ IdleMain
    /\ IdleConfigs
    /\ rpc = "loop"
    /\ scenario = 1
    /\ polls = 0
    /\ healthy = <<>>
    /\ failed = <<>>
    /\ invoked = <<>>
    /\ scenarios_run = <<>>

\* lines 339-345: the next scenario, up to the call of wait_for_healthy_cluster;
\* lines 354-361 when there is none
ScenarioBegin ==
    /\ rpc = "loop"
    /\ IF scenario <= Len(scenarios)
       THEN /\ rpc' = "wait"
            /\ polls' = 0
       ELSE /\ rpc' = "summary"
            /\ UNCHANGED polls
    /\ UNCHANGED << wal, configs, scenario, healthy, failed, invoked, scenarios_run >>

\* lines 84-92, one iteration before the deadline: ready returns True, any
\* other answer sleeps 2 s
HealthPoll ==
    /\ rpc = "wait"
    /\ polls < MaxPolls
    /\ \E answer \in HealthAnswers :
          IF answer = "ready"
          THEN /\ healthy' = <<TRUE>>
               /\ rpc' = "checked"
               /\ polls' = polls + 1
          ELSE /\ polls' = polls + 1
               /\ UNCHANGED << healthy, rpc >>
    /\ UNCHANGED << wal, configs, scenario, failed, invoked, scenarios_run >>

\* lines 84 and 93: the deadline has passed
HealthDeadline ==
    /\ rpc = "wait"
    /\ polls >= 1
    /\ healthy' = <<FALSE>>
    /\ rpc' = "checked"
    /\ UNCHANGED << wal, configs, scenario, polls, failed, invoked, scenarios_run >>

\* lines 345-348
HealthChecked ==
    /\ rpc = "checked"
    /\ IF ~healthy[1]
       THEN /\ failed' = Append(failed, ScenarioName(scenarios[scenario]) \o <<"(skipped)">>)
            /\ scenario' = scenario + 1
            /\ rpc' = "loop"
       ELSE /\ rpc' = "run"
            /\ UNCHANGED << failed, scenario >>
    /\ UNCHANGED << wal, configs, polls, healthy, invoked, scenarios_run >>

\* lines 349-352: run_scenario returns ok
RunScenario ==
    /\ rpc = "run"
    /\ \E ok \in BOOLEAN :
          failed' = IF ok THEN failed ELSE Append(failed, ScenarioName(scenarios[scenario]))
    /\ invoked' = Append(invoked, scenario)
    /\ scenario' = scenario + 1
    /\ rpc' = "loop"
    /\ UNCHANGED << wal, configs, polls, healthy, scenarios_run >>

\* lines 363-373
BenchSummary ==
    /\ rpc = "summary"
    /\ scenarios_run' = <<Len(scenarios)>>
    /\ rpc' = "done"
    /\ UNCHANGED << wal, configs, scenario, polls, healthy, failed, invoked >>

NextBench ==
    \/ ScenarioBegin
    \/ HealthPoll
    \/ HealthDeadline
    \/ HealthChecked
    \/ RunScenario
    \/ BenchSummary

SpecBench == InitBench /\ [][NextBench]_vars

\* ------------------------------------------------------------ benchmark_configs.py

MaxCount == 4

\* the latencies measured, in ms
Latencies == {1, 2}

\* the status codes of a response; 0 stands for a RequestException (lines 174, 251)
StatusCodes == {200, 201, 307, 404, 500, 0}

\* f"{i:05d}" for i below 100000, as digits
Pad5(n) == [j \in 1..5 |-> (n \div (10 ^ (5 - j))) % 10]

\* the key of the first request for every request
ConfigKey_First(n) == <<"config-">> \o Pad5(0)

\* line 379: f"config-{i:05d}"
ConfigKey(n) == <<"config-">> \o Pad5(n)

\* line 161: "success" of create_config
WriteSuccess(status_code) == status_code \in {200, 201, 307}

\* line 238: "success" of read_config
ReadSuccess(status_code) == status_code = 200

\* the first URL for every request
TargetOf_Primary(urls, n) == urls[1]

\* line 525: target_urls[i % len(target_urls)]
TargetOf(urls, n) == urls[(n % Len(urls)) + 1]

\* the keys of config_list
ConfigList == {<<"config-">> \o Pad5(0), <<"config-">> \o Pad5(7)}

\* lines 383-392 and 528-539: the result of a request is recorded
Record(success, latency_ms) ==
    /\ latencies' = Append(latencies, latency_ms)
    /\ successes' = IF success THEN successes + 1 ELSE successes
    /\ failures' = IF success THEN failures ELSE failures + 1

\* run_write_benchmark is called with count, before line 366
InitWrite ==
    /\ argv_ok = TRUE
    /\ metadata_file = <<>>
    /\ pages = Dir(<<>>, <<>>)
    /\ IdleMain
    /\ IdleBench
    /\ cpc = "namespace"
    /\ target_urls = <<"leader">>
    /\ count \in 1..MaxCount
    /\ ci = 0
    /\ successes = 0
    /\ failures = 0
    /\ latencies = <<>>
    /\ requests = <<>>

\* lines 366-376
CreateNamespace ==
    /\ cpc = "namespace"
    /\ \E created \in BOOLEAN : cpc' = IF created THEN "write" ELSE "exited"
    /\ UNCHANGED << wal, bench, target_urls, count, ci, successes, failures, latencies,
                    requests >>

\* lines 378-401, one iteration
WriteRequest ==
    /\ cpc = "write"
    /\ ci < count
    /\ requests' = Append(requests, << target_urls[1], ConfigKey(ci) >>)
    /\ \E status_code \in StatusCodes, latency_ms \in Latencies :
          Record(WriteSuccess(status_code), latency_ms)
    /\ ci' = ci + 1
    /\ UNCHANGED << wal, bench, cpc, target_urls, count >>

\* lines 403-433
WriteDone ==
    /\ cpc = "write"
    /\ ci >= count
    /\ cpc' = "done"
    /\ UNCHANGED << wal, bench, target_urls, count, ci, successes, failures, latencies,
                    requests >>

NextWrite ==
    \/ CreateNamespace
    \/ WriteRequest
    \/ WriteDone

SpecWrite == InitWrite /\ [][NextWrite]_vars

\* run_read_benchmark is called with 1 to 3 target URLs and count, before line 469
InitRead ==
    /\ argv_ok = TRUE
    /\ metadata_file = <<>>
    /\ pages = Dir(<<>>, <<>>)
    /\ IdleMain
    /\ IdleBench
    /\ cpc = "configs"
    /\ target_urls \in { <<"node1">>, <<"node1", "node2">>, <<"node1", "node2", "node3">> }
    /\ count \in 1..MaxCount
    /\ ci = 0
    /\ successes = 0
    /\ failures = 0
    /\ latencies = <<>>
    /\ requests = <<>>

\* lines 469-516: the list of configs to read is there, or the run ends
ReadConfigs ==
    /\ cpc = "configs"
    /\ \E found \in BOOLEAN : cpc' = IF found THEN "read" ELSE "exited"
    /\ UNCHANGED << wal, bench, target_urls, count, ci, successes, failures, latencies,
                    requests >>

\* lines 518-547, one iteration
ReadRequest ==
    /\ cpc = "read"
    /\ ci < count
    /\ \E cfg_key \in ConfigList :
          requests' = Append(requests, << TargetOf(target_urls, ci), cfg_key >>)
    /\ \E status_code \in StatusCodes, latency_ms \in Latencies :
          Record(ReadSuccess(status_code), latency_ms)
    /\ ci' = ci + 1
    /\ UNCHANGED << wal, bench, cpc, target_urls, count >>

\* lines 549-553
ReadDone ==
    /\ cpc = "read"
    /\ ci >= count
    /\ cpc' = "done"
    /\ UNCHANGED << wal, bench, target_urls, count, ci, successes, failures, latencies,
                    requests >>

NextRead ==
    \/ ReadConfigs
    \/ ReadRequest
    \/ ReadDone

SpecRead == InitRead /\ [][NextRead]_vars

\* ------------------------------------------------------------ reading the state

Printed(kind) == SelectSeq(stdout, LAMBDA r : r.kind = kind)

Rows == Printed("row")

\* the file the run was given
GivenSlots == metadata_file[1].slots

\* the non-empty slot positions (from 0) of a file, in increasing order
RECURSIVE NonEmptyPositions(_)
NonEmptyPositions(slots) ==
    IF slots = <<>> THEN <<>>
    ELSE LET n == Len(slots)
             before == NonEmptyPositions(SubSeq(slots, 1, n - 1))
         IN  IF slots[n].term = 0 /\ slots[n].length = 0 /\ slots[n].offset = 0
             THEN before ELSE Append(before, n - 1)

\* the page file numbered offset div 16384 holds bytes at offset mod 16384
HoldsAt(dir, offset, bytes) ==
    LET p == offset \div 16384
        at == offset % 16384
    IN  /\ p \in DOMAIN dir
        /\ dir[p] # <<>>
        /\ at + Len(bytes) <= dir[p][1].size
        /\ \A j \in 1..Len(bytes) : ByteAt(dir[p][1], at + j - 1) = bytes[j]

\* a slot of a real log: not empty, the time stamp one of a .NET DateTime
ValidSlot(s) ==
    /\ ~(s.term = 0 /\ s.length = 0 /\ s.offset = 0)
    /\ BigLeq(s.timestamp_ticks, TICKS_DATETIME_MAX)

\* a valid slot whose data, length bytes at offset, begin with bytes
PointsTo(s, bytes) ==
    /\ ValidSlot(s)
    /\ s.length >= Len(bytes)
    /\ HoldsAt(pages, s.offset, bytes)

\* ------------------------------------------------------------ C1

C1_Scenario ==
    /\ argv_ok
    /\ metadata_file # <<>>
    /\ Len(GivenSlots) = 3
    /\ PointsTo(GivenSlots[1], MARKER)
    /\ PointsTo(GivenSlots[2], Zeros(8) \o MARKER)
    /\ GivenSlots[3] = Slot(0, TICKS_ZERO, 0, 0, 0)

\* C1: a run over a metadata file of 3 slots, slot 0 valid with data that start
\* with the marker, slot 1 valid with data of 8 zero bytes and then the marker
\* (each in the page file its offset names), slot 2 all zero, ends with status
\* 0 having printed "Found 2 entries", two rows, index 0 tagged OK and index 1
\* tagged BUG!, and a summary that counts 1 padding bug, with the block of
\* entry 1.
C1_EndToEnd ==
    (C1_Scenario /\ pc = "exited") =>
        /\ exit_status = <<0>>
        /\ Printed("found") = <<[kind |-> "found", count |-> 2]>>
        /\ Len(Rows) = 2
        /\ Rows[1].index = 0 /\ Rows[1].status = "OK"
        /\ Rows[2].index = 1 /\ Rows[2].status = "BUG!"
        /\ Printed("bugs") = <<[kind |-> "bugs", count |-> 1]>>
        /\ Printed("nobugs") = <<>>
        /\ Len(Printed("block")) = 1
        /\ Printed("block")[1].index = 1

C1_Witness == C1_Scenario /\ pc = "exited" /\ Len(Rows) = 2

\* ------------------------------------------------------------ C2

IsCall(fns) == pc = "returned" /\ ucall[1].fn \in fns

\* C2: in every result of analyze_entry, has_padding_bug is true exactly when
\* leading_nulls > 0 and starts_with_json is false.
C2_BugFlagDefinition ==
    IsCall({"analyze_entry", "Analysis"}) =>
        (uret[1].has_padding_bug <=> (uret[1].leading_nulls > 0 /\ ~uret[1].starts_with_json))

C2_Witness ==
    /\ IsCall({"analyze_entry"})
    /\ uret[1].has_padding_bug
    /\ uret[1].leading_nulls > 0

\* ------------------------------------------------------------ C3

\* d is n zero bytes and then a non-zero byte
ZerosThenNonZero(d, n) ==
    /\ n >= 1
    /\ Len(d) > n
    /\ \A j \in 1..n : d[j] = 0
    /\ d[n + 1] # 0

\* C3: a sample of n >= 1 zero bytes followed by a non-zero byte gives
\* leading_nulls = n, starts_with_json = FALSE and has_padding_bug = TRUE,
\* whether or not the marker follows the zero bytes.
C3_FillerThenContent ==
    IsCall({"analyze_entry", "Analysis"}) =>
        \A n \in 1..Len(data[1]) :
            ZerosThenNonZero(data[1], n) =>
                /\ uret[1].leading_nulls = n
                /\ ~uret[1].starts_with_json
                /\ uret[1].has_padding_bug

C3_Witness ==
    /\ IsCall({"Analysis"})
    /\ data[1] = Zeros(4) \o MARKER \o <<0, 88>>
    /\ uret[1].leading_nulls = 4
    /\ uret[1].has_padding_bug

\* ------------------------------------------------------------ C4

\* where byte g of the concatenation of the page files 0, 1, 2, ... lies:
\* <<page, position>>, or <<>> past the end
RECURSIVE Locate(_, _, _)
Locate(dir, p, g) ==
    IF p \notin DOMAIN dir \/ dir[p] = <<>> THEN <<>>
    ELSE IF g < dir[p][1].size THEN <<p, g>>
    ELSE Locate(dir, p + 1, g - dir[p][1].size)

\* the logical offset space holds bytes at g
LogicalHolds(dir, g, bytes) ==
    \A j \in 1..Len(bytes) :
        LET at == Locate(dir, 0, g + j - 1)
        IN  at # <<>> /\ ByteAt(dir[at[1]][1], at[2]) = bytes[j]

\* pages of exactly 16384 bytes, but for the last one, which may be shorter
WellFormedStore(dir) ==
    \A p \in DOMAIN dir :
        dir[p] # <<>> =>
            /\ dir[p][1].size <= 16384
            /\ \A q \in DOMAIN dir : q < p => (dir[q] # <<>> /\ dir[q][1].size = 16384)

ReportedOK(r) == r.starts_with_json /\ r.leading_nulls = 0 /\ Status(r) = "OK"

\* C4 as claimed: an entry of at least 8 bytes whose payload begins with the
\* marker at its offset of the logical offset space, at any offset, is
\* analysed as starts_with_json with no leading zero byte, and reported OK.
C4_AnyOffset ==
    ( /\ IsCall({"analyze_entry"})
      /\ WellFormedStore(pages)
      /\ ucall[1].entry.length >= Len(MARKER)
      /\ LogicalHolds(pages, ucall[1].entry.offset, MARKER) )
    => ReportedOK(uret[1])

\* C4, amended: the same when the marker lies within the page file numbered
\* offset div 16384, at offset mod 16384, and ends at or before byte 16384.
C4_MarkerInStartPage ==
    ( /\ IsCall({"analyze_entry"})
      /\ ucall[1].entry.length >= Len(MARKER)
      /\ HoldsAt(pages, ucall[1].entry.offset, MARKER)
      /\ (ucall[1].entry.offset % 16384) + Len(MARKER) <= 16384 )
    => ReportedOK(uret[1])

C4_Witness ==
    /\ IsCall({"analyze_entry"})
    /\ ucall[1].entry.offset = 16384 + 50
    /\ ucall[1].entry.length = 120
    /\ HoldsAt(pages, ucall[1].entry.offset, MARKER)
    /\ ReportedOK(uret[1])

\* ------------------------------------------------------------ C5

\* C5: a run ends with status 0 when the analysis completes, and with another
\* status only when the directory argument or the metadata file is absent.
C5_ExitStatus ==
    pc = "exited" =>
        /\ Printed("nobugs") \o Printed("bugs") # <<>> => exit_status = <<0>>
        /\ exit_status # <<0>> => (~argv_ok \/ metadata_file = <<>>)

\* ------------------------------------------------------------ C6

\* C6: with a writer that creates and removes page files during the run, the
\* read of a page file that is absent at some point of the read gives an empty
\* sample and does not fail: no run ends with the failure of a page read.
C6_AbsentPageIsEmptyRead == fault # <<"FileNotFoundError">>

\* ------------------------------------------------------------ C7

\* the read of the sample of e finds no page file, or a page file that ends at or
\* before the position of e
EmptyRead(e) ==
    \/ e.offset \div 16384 \notin DOMAIN pages
    \/ pages[e.offset \div 16384] = <<>>
    \/ (e.offset % 16384) >= pages[e.offset \div 16384][1].size

Analysed(e) == "leading_nulls" \in DOMAIN e

\* C7: the sample of an entry whose page file does not exist, or ends at or
\* before the entry's position in the page, is empty and nothing is raised; the
\* run goes on with the next entry, prints a row for every entry, the row of
\* such an entry tagged ?, and ends with status 0.
C7_MissingPageIsEmptySample ==
    /\ (pc = "analyze" /\ k > 1 /\ EmptyRead(entries[k - 1])) =>
          /\ data = << <<>> >>
          /\ Analysed(entries[k - 1])
          /\ fault = <<>>
          /\ exit_status = <<>>
    /\ (pc = "exited" /\ \E j \in 1..Len(entries) : Analysed(entries[j]) /\ EmptyRead(entries[j])) =>
          /\ exit_status = <<0>>
          /\ Len(Rows) = Len(entries)
          /\ \A j \in 1..Len(entries) :
                EmptyRead(entries[j]) => (Rows[j].index = entries[j].index /\ Rows[j].status = "?")

C7_Witness ==
    /\ pc = "exited"
    /\ Len(entries) = 3
    /\ ~FileExists(pages, entries[1].offset \div 16384)
    /\ FileExists(pages, entries[2].offset \div 16384) /\ EmptyRead(entries[2])
    /\ Len(Rows) = 3
    /\ Rows[3].status = "OK"

\* ------------------------------------------------------------ C8

\* C8: read_data_at_offset(offset, length) returns at most
\* min(length, 16384 - offset mod 16384) bytes, each the byte of the page file
\* numbered offset div 16384 at offset mod 16384 onwards, none at or past byte
\* 16384 of it and none of the next page file.
C8_ReadWithinOnePage ==
    IsCall({"read_data_at_offset"}) =>
        LET p == ucall[1].offset \div 16384
            at == ucall[1].offset % 16384
            r == uret[1]
        IN  /\ Len(r) <= Min(ucall[1].length, 16384 - at)
            /\ at + Len(r) <= 16384
            /\ Len(r) > 0 => (p \in DOMAIN pages /\ pages[p] # <<>>)
            /\ \A j \in 1..Len(r) :
                  /\ at + j - 1 < pages[p][1].size
                  /\ r[j] = ByteAt(pages[p][1], at + j - 1)

C8_Witness ==
    /\ IsCall({"read_data_at_offset"})
    /\ ucall[1].offset = 16384 - 4
    /\ ucall[1].length = 50
    /\ FileExists(pages, 1)
    /\ uret[1] = SubSeq(MARKER, 1, 4)

\* ------------------------------------------------------------ C9

\* C9: the rows of the report are the non-empty slots among the complete slots
\* of the metadata file, in increasing order of index, the index of a row the
\* position of its slot, its offset and length those of the slot and its end
\* offset their sum.
C9_RowsAreNonEmptySlots ==
    (pc \in {"summary", "exited"} /\ fault = <<>> /\ Printed("found") # <<>>) =>
        LET pos == NonEmptyPositions(GivenSlots)
        IN  /\ Len(Rows) = Len(pos)
            /\ Printed("found")[1].count = Len(pos)
            /\ \A j \in 1..Len(Rows) :
                  /\ Rows[j].index = pos[j]
                  /\ Rows[j].offset = GivenSlots[pos[j] + 1].offset
                  /\ Rows[j].length = GivenSlots[pos[j] + 1].length
                  /\ Rows[j].end_offset = Rows[j].offset + Rows[j].length
            /\ \A j \in 1..(Len(Rows) - 1) : Rows[j].index < Rows[j + 1].index

C9_Witness ==
    /\ pc = "exited"
    /\ metadata_file # <<>>
    /\ Len(GivenSlots) = 3
    /\ metadata_file[1].trailing > 0
    /\ Len(Rows) = 2
    /\ Rows[1].index = 1
    /\ Rows[2].index = 2
    /\ Rows[1].length > 0

\* ------------------------------------------------------------ C10

\* C10: for a complete slot, read_metadata_entry yields no entry exactly when
\* term, length and offset are all 0; an entry it yields never has all three 0.
C10_NoEntryIffEmpty ==
    ( /\ IsCall({"read_metadata_entry"})
      /\ (ucall[1].index + 1) * 64 <= 64 * Len(ucall[1].md.slots) + ucall[1].md.trailing )
    => LET s == ucall[1].md.slots[ucall[1].index + 1]
       IN  /\ (uret[1].value = <<>>) <=> (s.term = 0 /\ s.length = 0 /\ s.offset = 0)
           /\ uret[1].value # <<>> =>
                 ~( /\ uret[1].value[1].term = 0
                    /\ uret[1].value[1].length = 0
                    /\ uret[1].value[1].offset = 0 )

\* ------------------------------------------------------------ C11

\* 10 * x
BigTimes10(x) ==
    LET m2 == MagAdd(x.mag, x.mag)
        m4 == MagAdd(m2, m2)
        m8 == MagAdd(m4, m4)
    IN  BigNorm(Big(x.neg, MagAdd(m8, m2)))

\* the call decoded a complete slot that is not empty
DecodedSlot ==
    /\ IsCall({"read_metadata_entry"})
    /\ (ucall[1].index + 1) * 64 <= 64 * Len(ucall[1].md.slots) + ucall[1].md.trailing
    /\ LET s == ucall[1].md.slots[ucall[1].index + 1]
       IN  ~(s.term = 0 /\ s.length = 0 /\ s.offset = 0)

\* C11: decoding a slot succeeds whatever its signed 64-bit timestamp_ticks;
\* the timestamp is absent exactly when timestamp_ticks <= 0, and for
\* timestamp_ticks > 0 it is 1970-01-01T00:00:00 plus exactly
\* timestamp_ticks - 621355968000000000 ticks of 100 ns.
C11_TimestampDecoding ==
    DecodedSlot =>
        LET ticks == ucall[1].md.slots[ucall[1].index + 1].timestamp_ticks
            positive == ~ticks.neg /\ ticks.mag # <<0, 0, 0, 0>>
        IN  /\ ~uret[1].raised
            /\ uret[1].value # <<>>
            /\ IF uret[1].value = <<>> THEN TRUE
               ELSE LET timestamp == uret[1].value[1].timestamp
                    IN  /\ (timestamp = <<>>) <=> ~positive
                        /\ timestamp # <<>> =>
                              BigTimes10(timestamp[1]) = BigSubNat(ticks, EPOCH_TICKS)

\* ------------------------------------------------------------ C12

\* d begins with the 8 marker bytes {"$type"
BeginsWithMarker(d) ==
    /\ Len(d) >= 8
    /\ <<d[1], d[2], d[3], d[4], d[5], d[6], d[7], d[8]>> = <<123, 34, 36, 116, 121, 112, 101, 34>>

\* C12: a sample that begins with the marker bytes gives starts_with_json =
\* TRUE and leading_nulls = 0, whatever follows the marker.
C12_MarkerPrefix ==
    IsCall({"analyze_entry", "Analysis"}) =>
        (BeginsWithMarker(data[1]) =>
            (uret[1].starts_with_json /\ uret[1].leading_nulls = 0))

C12_Witness ==
    /\ IsCall({"Analysis"})
    /\ data[1] = MARKER \o <<0, 88>>
    /\ uret[1].starts_with_json
    /\ uret[1].leading_nulls = 0

\* ------------------------------------------------------------ C13

\* C13: leading_nulls is the number of zero bytes from the start of the sample
\* up to its first non-zero byte; for a sample of zero bytes only it is the
\* length of the sample, and starts_with_json is FALSE.
C13_LeadingZeroCount ==
    IsCall({"analyze_entry", "Analysis"}) =>
        LET d == data[1]
            n == uret[1].leading_nulls
        IN  /\ n \in 0..Len(d)
            /\ \A j \in 1..n : d[j] = 0
            /\ n < Len(d) => d[n + 1] # 0
            /\ (\A j \in 1..Len(d) : d[j] = 0) =>
                  (n = Len(d) /\ ~uret[1].starts_with_json)

C13_Witness ==
    /\ IsCall({"analyze_entry"})
    /\ Len(data[1]) = 100
    /\ \A j \in 1..100 : data[1][j] = 0
    /\ uret[1].leading_nulls = 100
    /\ ~uret[1].starts_with_json

\* ------------------------------------------------------------ C14

\* the page that holds byte x: the p with 16384 * p <= x < 16384 * (p + 1)
PageOf(x) == CHOOSE p \in -1..3 : 16384 * p <= x /\ x < 16384 * (p + 1)

\* C14: crosses_page is TRUE exactly when the page of offset is not the page
\* of offset + length - 1, the last byte of the entry.
C14_CrossesPage ==
    IsCall({"analyze_entry", "Analysis"}) =>
        LET e == ucall[1].entry
        IN  uret[1].crosses_page <=> (PageOf(e.offset) # PageOf(e.offset + e.length - 1))

C14_Witness ==
    /\ IsCall({"analyze_entry"})
    /\ ucall[1].entry.offset = 16384 - 4
    /\ ucall[1].entry.length = 8
    /\ uret[1].crosses_page

\* ------------------------------------------------------------ C15

\* C15: remaining_in_page is (page of offset + 1) * 16384 - offset when that
\* is strictly below length, and absent otherwise.
C15_RemainingInStartPage ==
    IsCall({"analyze_entry", "Analysis"}) =>
        LET e == ucall[1].entry
            remaining == (PageOf(e.offset) + 1) * 16384 - e.offset
        IN  uret[1].remaining_in_page = IF remaining < e.length THEN <<remaining>> ELSE <<>>

C15_Witness ==
    /\ IsCall({"analyze_entry"})
    /\ ucall[1].entry.offset = 16384 - 8
    /\ ucall[1].entry.length = 16
    /\ uret[1].remaining_in_page = <<8>>

\* ------------------------------------------------------------ C16

\* the report was printed: the rows of all entries
Reported == pc \in {"summary", "exited"} /\ fault = <<>> /\ Printed("found") # <<>>

\* the sample of e is empty: no byte to read at its position, or none asked
EmptySample(e) == EmptyRead(e) \/ e.length = 0

\* the sample of e starts with a non-zero byte and not with the whole marker
NonZeroNonMarker(e) ==
    /\ ~EmptySample(e)
    /\ ByteAt(pages[e.offset \div 16384][1], e.offset % 16384) # 0
    /\ ~( /\ e.length >= 8
          /\ (e.offset % 16384) + 8 <= 16384
          /\ HoldsAt(pages, e.offset, MARKER) )

\* C16: every row carries one status tag: BUG! when has_padding_bug, else OK
\* when starts_with_json, else ?; the row of an entry whose sample is empty
\* (missing page, read at or past the end of the page file, length 0) or starts
\* with a non-zero byte and not with the marker is tagged ?.
C16_StatusTag ==
    Reported =>
        /\ Len(Rows) = Len(entries)
        /\ \A j \in 1..Len(Rows) :
              LET e == entries[j]
                  tag == Rows[j].status
              IN  /\ Rows[j].index = e.index
                  /\ tag \in {"BUG!", "OK", "?"}
                  /\ e.has_padding_bug => tag = "BUG!"
                  /\ (~e.has_padding_bug /\ e.starts_with_json) => tag = "OK"
                  /\ (~e.has_padding_bug /\ ~e.starts_with_json) => tag = "?"
                  /\ (EmptySample(e) \/ NonZeroNonMarker(e)) => tag = "?"

C16_Witness ==
    /\ Reported
    /\ Len(Rows) = 3
    /\ Rows[1].status = "BUG!"
    /\ Rows[2].status = "?" /\ NonZeroNonMarker(entries[2])
    /\ Rows[3].status = "?" /\ entries[3].length = 0

\* ------------------------------------------------------------ C17

\* the entries flagged has_padding_bug, in the order of the list
Flagged == SelectSeq(entries, LAMBDA e : e.has_padding_bug)

Blocks == Printed("block")

\* C17: the report has one block for each entry flagged has_padding_bug and
\* no other, in index order; a block shows the recorded offset, the corrected
\* offset = offset + leading_nulls and the page boundary
\* (offset div 16384 + 1) * 16384; the count of the summary is the number of
\* blocks.
C17_BlocksAreFlaggedEntries ==
    (Reported /\ pc = "exited") =>
        /\ Len(Blocks) = Len(Flagged)
        /\ \A j \in 1..Len(Blocks) :
              /\ Blocks[j].index = Flagged[j].index
              /\ Blocks[j].offset = Flagged[j].offset
              /\ Blocks[j].actual_json_at = Flagged[j].offset + Flagged[j].leading_nulls
              /\ Blocks[j].page_boundary = (Flagged[j].offset \div 16384 + 1) * 16384
        /\ \A j \in 1..(Len(Blocks) - 1) : Blocks[j].index < Blocks[j + 1].index
        /\ Blocks # <<>> => (Len(Printed("bugs")) = 1 /\ Printed("bugs")[1].count = Len(Blocks))
        /\ Blocks = <<>> => Printed("bugs") = <<>>

C17_Witness ==
    /\ Reported
    /\ pc = "exited"
    /\ Len(entries) = 3
    /\ Len(Blocks) = 2
    /\ Blocks[1].index = 0 /\ Blocks[2].index = 2
    /\ Blocks[2].offset = 100 /\ Blocks[2].actual_json_at = 108
    /\ Printed("bugs")[1].count = 2

\* ------------------------------------------------------------ C18

\* C18: when the metadata file is absent the run prints the path it looked
\* for and ends at once with a status other than 0: it never reads or decodes
\* metadata, reads no page file and prints no row.
C18_MissingMetadataIsFatal ==
    (argv_ok /\ metadata_file = <<>>) =>
        /\ pc \in {"args", "exists", "exited"}
        /\ metadata_data.slots = <<>> /\ max_entries = 0 /\ i = 0
        /\ entries = <<>>
        /\ data = <<>>
        /\ Rows = <<>>
        /\ pc = "exited" =>
              /\ stdout = <<[kind |-> "error", path |-> "raft-log/metadata/0"]>>
              /\ exit_status # <<>> /\ exit_status # <<0>>

C18_Witness ==
    /\ argv_ok
    /\ metadata_file = <<>>
    /\ pages[0] # <<>>
    /\ pc = "exited"
    /\ Printed("error") # <<>>
    /\ exit_status = <<1>>

\* ------------------------------------------------------------ C19

\* the file given has a partial slot at its end
PartialTail == argv_ok /\ metadata_file # <<>> /\ metadata_file[1].trailing % 64 # 0

\* C19: a metadata file whose size is not a multiple of 64 is no error:
\* read_metadata_entry gives no entry at the index of the partial slot, the
\* run examines exactly floor(size / 64) slots, raises nothing and ends with
\* status 0.
C19_TruncatedRecord ==
    PartialTail =>
        LET size == 64 * Len(GivenSlots) + metadata_file[1].trailing
            partial == read_metadata_entry(metadata_file[1], size \div 64)
        IN  /\ ~partial.raised /\ partial.value = <<>>
            /\ pc \in {"decode", "analyze", "open", "summary", "exited"} =>
                  (max_entries = size \div 64 /\ i <= max_entries)
            /\ fault = <<>>
            /\ pc = "exited" => (exit_status = <<0>> /\ i = size \div 64)

\* ------------------------------------------------------------ C20

\* C20: when the summary is "No padding bugs detected - all entries start
\* with valid JSON", every entry of the report has starts_with_json = TRUE
\* and the tag OK; no row of such a run is tagged ?.
C20_NoBugsMeansAllOK ==
    (pc = "exited" /\ Printed("nobugs") # <<>>) =>
        /\ \A j \in 1..Len(entries) : entries[j].starts_with_json
        /\ \A j \in 1..Len(Rows) : Rows[j].status = "OK"

\* ------------------------------------------------------------ C21

\* C21: for every offset and every length, length 0 included, crosses_page is
\* TRUE exactly when remaining_in_page is reported.
C21_CrossesIffRemainingReported ==
    IsCall({"analyze_entry", "Analysis"}) =>
        (uret[1].crosses_page <=> (uret[1].remaining_in_page # <<>>))

\* ------------------------------------------------------------ C22

\* the entries decoded from the file given, in slot order
Decoded ==
    LET pos == NonEmptyPositions(GivenSlots)
    IN  [j \in 1..Len(pos) |-> read_metadata_entry(metadata_file[1], pos[j]).value[1]]

\* C22: while and after main analyses the decoded entries in place, position
\* j of the list holds the analysis of the j-th decoded entry once the loop
\* has passed it and the j-th decoded entry before: at the end the list is
\* the element-wise analysis of the decoded list, and buggy_entries are its
\* flagged elements in order.
C22_InPlaceAnalysisIsMap ==
    (Printed("found") # <<>> /\ fault = <<>>) =>
        /\ Len(entries) = Len(Decoded)
        /\ k \in 1..(Len(entries) + 1)
        /\ \A j \in 1..Len(entries) :
              entries[j] = IF j < k THEN analyze_entry(pages, Decoded[j]) ELSE Decoded[j]
        /\ buggy_entries =
              SelectSeq([j \in 1..(k - 1) |-> analyze_entry(pages, Decoded[j])],
                        LAMBDA e : e.has_padding_bug)
        /\ pc \in {"summary", "exited"} => k = Len(entries) + 1

C22_Witness ==
    /\ pc = "exited"
    /\ fault = <<>>
    /\ Len(entries) = 3
    /\ entries[1].offset = entries[3].offset
    /\ entries[1].length = entries[3].length
    /\ entries[1].has_padding_bug
    /\ ~entries[2].has_padding_bug
    /\ Len(buggy_entries) = 2

\* ------------------------------------------------------------ C23

\* C23: in every result of analyze_entry starts_with_json and
\* leading_nulls > 0 never hold together, has_padding_bug is TRUE exactly
\* when leading_nulls > 0, and leading_nulls <= length of the sample <=
\* min(100, entry.length).
C23_AnalysisInvariants ==
    /\ IsCall({"analyze_entry", "Analysis"}) =>
          /\ ~(uret[1].starts_with_json /\ uret[1].leading_nulls > 0)
          /\ uret[1].has_padding_bug <=> (uret[1].leading_nulls > 0)
          /\ uret[1].leading_nulls <= Len(data[1])
    /\ IsCall({"analyze_entry"}) =>
          /\ Len(data[1]) <= 100
          /\ Len(data[1]) <= ucall[1].entry.length

C23_Witness ==
    /\ IsCall({"analyze_entry"})
    /\ ucall[1].entry.length = 120
    /\ Len(data[1]) = 100
    /\ uret[1].leading_nulls = 8
    /\ uret[1].has_padding_bug

\* ------------------------------------------------------------ C24

\* scenario s (position from 1) is in the failed list as skipped
Skipped(s) ==
    \E j \in 1..Len(failed) :
        failed[j] = << scenarios[s][1][1], scenarios[s][3], scenarios[s][4], "(skipped)" >>

WasInvoked(s) == \E j \in 1..Len(invoked) : invoked[j] = s

\* C24: run_scenario is called for a scenario only when the
\* wait_for_healthy_cluster just before it returned True; a scenario whose
\* health check fails is skipped and put in the failed list and the later
\* scenarios are still attempted, in the order write 1u, write 10u, read 1u,
\* read 10u, mixed 10u; the number printed as "Scenarios run" is the number
\* of scenarios run_scenario was called for.
C24_HealthGatedScenarios ==
    /\ rpc = "run" => healthy = <<TRUE>>
    /\ \A j \in 1..(Len(invoked) - 1) : invoked[j] < invoked[j + 1]
    /\ \A s \in 1..(scenario - 1) : WasInvoked(s) # Skipped(s)
    /\ \A s \in scenario..5 : ~WasInvoked(s) /\ ~Skipped(s)
    /\ rpc = "done" => (scenario = 6 /\ scenarios_run = <<Len(invoked)>>)

\* ------------------------------------------------------------ C25

\* the keys of the requests issued so far
IssuedKeys == [n \in 1..Len(requests) |-> requests[n][2]]

\* C25: in run_write_benchmark, once the namespace is created, the requests are
\* issued one at a time for the keys config-00000, config-00001, ... in
\* increasing order; after every iteration successes + failures = the number of
\* recorded latencies = the number of requests issued, and at the end this
\* number is count, whatever the responses were.
C25_WriteLoopCounts ==
    cpc \in {"write", "done"} =>
        /\ IssuedKeys = [n \in 1..ci |-> <<"config-">> \o Pad5(n - 1)]
        /\ \A n \in 1..Len(requests), m \in 1..Len(requests) :
              n < m => requests[n][2] # requests[m][2]
        /\ successes + failures = Len(latencies)
        /\ Len(latencies) = Len(requests)
        /\ Len(requests) = ci
        /\ ci <= count
        /\ cpc = "done" => Len(requests) = count

\* a finished run of three requests with successes and failures
C25_Witness ==
    /\ cpc = "done"
    /\ target_urls = <<"leader">>
    /\ count = 3
    /\ successes = 2
    /\ failures = 1
    /\ IssuedKeys = << <<"config-", 0, 0, 0, 0, 0>>, <<"config-", 0, 0, 0, 0, 1>>,
                       <<"config-", 0, 0, 0, 0, 2>> >>

\* ------------------------------------------------------------ C26

\* the number of requests sent to the URL at position t of target_urls
SentTo(t) == Cardinality({n \in 1..Len(requests) : requests[n][1] = target_urls[t]})

\* C26: in run_read_benchmark with n >= 1 target URLs the i-th request (i from
\* 0) is sent to target_urls[i mod n], and the numbers of requests received by
\* any two targets differ by at most 1 after any number of requests, whichever
\* of them succeed or fail.
C26_RoundRobin ==
    /\ Len(target_urls) >= 1
    /\ \A n \in 1..Len(requests) :
          requests[n][1] = target_urls[((n - 1) % Len(target_urls)) + 1]
    /\ \A t \in 1..Len(target_urls), u \in 1..Len(target_urls) :
          SentTo(t) - SentTo(u) \in {-1, 0, 1}
    /\ Len(requests) = ci

\* four requests over three targets: the fourth goes to the first target again
C26_Witness ==
    /\ cpc = "done"
    /\ Len(target_urls) = 3
    /\ Len(requests) = 4
    /\ requests[4][1] = target_urls[1]
    /\ SentTo(1) = 2
    /\ SentTo(2) = 1
    /\ successes = 1
    /\ failures = 3

====
